---------------------------- MODULE Spec2Model ----------------------------
(***************************************************************************)
(* Model of the text -> slide deck pipeline of backend/llm_router.py and   *)
(* backend/pptx_builder.py.                                                *)
(*                                                                         *)
(* Python strings are sequences of one-character strings, so that strip,   *)
(* splitlines, split and the regular expressions are computed character by *)
(* character.  Python's None is the value None below.                      *)
(*                                                                         *)
(* Three specifications share the variables:                               *)
(*   SpecSplit   _heuristic_split applied to a text                        *)
(*   SpecRouter  structure_slides with a provider answer                   *)
(*   SpecRender  build_presentation, one step per slide appended           *)
(***************************************************************************)
EXTENDS Integers, Sequences, FiniteSets, TLC

VARIABLES
    pc,                 \* position of the request
    text,               \* input text
    guidance,           \* guidance string or None
    provider,           \* provider name as received
    api_key,            \* credential or None
    http,               \* what the provider call meets: outcome and unwrapped text
    result,             \* what structure_slides / _heuristic_split gave back
    template,           \* the uploaded template container
    outline,            \* the deck handed to build_presentation
    prefer_layout_idx,  \* build_presentation's prefer_layout_idx
    prs,                \* the presentation being built (layouts, slides)
    template_images,    \* the image pool collected from the template
    image_idx,          \* the running image counter
    default_layout_idx, \* layout index chosen for the outline slides
    todo,               \* outline slides not yet appended
    lines,              \* _heuristic_split: lines not yet scanned
    st,                 \* _heuristic_split: slides, current_title, current_lines
    failure             \* why build_presentation raised, or "none"

vars == <<pc, text, guidance, provider, api_key, http, result, template,
          outline, prefer_layout_idx, prs, template_images, image_idx,
          default_layout_idx, todo, lines, st, failure>>

splitVars  == <<lines, st>>
routerVars == <<provider, api_key, http>>
renderVars == <<template, outline, prefer_layout_idx, prs, template_images,
                image_idx, default_layout_idx, todo, failure>>

-----------------------------------------------------------------------------
(* Bounds of the model *)

MaxTextLen == 5
MaxRepeat == 21
MaxContentLen == 4
MaxOutlineSlides == 5
MaxLayouts == 2
MaxTemplateSlides == 2

(* Constants of the program *)

BulletCap == 8
ParaBulletCap == 6
SlideCap == 20

-----------------------------------------------------------------------------
(* Python values *)

None == <<"<None>">>

Truthy(x) == x # None /\ x # <<>>

\* A returned object: a dict with its keys and the values of "title" and
\* "slides" (empty when the key is absent), a number, or no object
PyDict(keys, title, slides) ==
    [type |-> "dict", keys |-> keys, title |-> title, slides |-> slides]
PyNumber == [type |-> "number", keys |-> {}, title |-> <<>>, slides |-> <<>>]
NoValue == [type |-> "none", keys |-> {}, title |-> <<>>, slides |-> <<>>]

\* a returned value, or an exception that left the function
Returned(v) == [raised |-> FALSE, value |-> v]
Raised == [raised |-> TRUE, value |-> NoValue]

Min(a, b) == IF a < b THEN a ELSE b

\* s[:n]
Prefix(s, n) == SubSeq(s, 1, Min(n, Len(s)))

Whitespace == {" ", "\t", "\n", "\r"}

MinOf(S) == CHOOSE x \in S : \A y \in S : x <= y
MaxOf(S) == CHOOSE x \in S : \A y \in S : x >= y

\* str.lstrip(chars)
lstrip(s, chars) ==
    LET keep == {i \in 1..Len(s) : s[i] \notin chars}
    IN  IF keep = {} THEN <<>> ELSE SubSeq(s, MinOf(keep), Len(s))

\* str.rstrip(chars)
rstrip(s, chars) ==
    LET keep == {i \in 1..Len(s) : s[i] \notin chars}
    IN  IF keep = {} THEN <<>> ELSE SubSeq(s, 1, MaxOf(keep))

\* str.strip(chars); str.strip() is strip(s, Whitespace)
strip(s, chars) == rstrip(lstrip(s, chars), chars)

\* str.splitlines(): a line ends at "\n", "\r" or "\r\n"; what follows the
\* last line end is a line only when it is not empty
splitlines(s) ==
    LET n == Len(s)
        \* positions where a line terminator ends
        ends == {i \in 1..n : \/ s[i] = "\n"
                              \/ s[i] = "\r" /\ ~(i < n /\ s[i + 1] = "\n")}
        EndNo(k) == IF k = 0 THEN 0
                    ELSE CHOOSE e \in ends : Cardinality({d \in ends : d <= e}) = k
        \* first position of the terminator that ends at e
        TermStart(e) == IF s[e] = "\n" /\ e > 1 /\ s[e - 1] = "\r" THEN e - 1 ELSE e
        count == Cardinality(ends)
        last == EndNo(count)
        closed == [k \in 1..count |->
                      SubSeq(s, EndNo(k - 1) + 1, TermStart(EndNo(k)) - 1)]
    IN  IF last < n THEN Append(closed, SubSeq(s, last + 1, n)) ELSE closed

\* str.split("\n\n"): leftmost non-overlapping separators, empty pieces kept
RECURSIVE split_paras_at(_, _, _, _)
split_paras_at(s, i, cur, acc) ==
    IF i > Len(s) THEN Append(acc, cur)
    ELSE IF s[i] = "\n" /\ i < Len(s) /\ s[i + 1] = "\n"
         THEN split_paras_at(s, i + 2, <<>>, Append(acc, cur))
    ELSE split_paras_at(s, i + 1, Append(cur, s[i]), acc)

split_paras(s) == split_paras_at(s, 1, <<>>, <<>>)

\* the separators of the re.split in the paragraph branch: the characters of
\* its class (U+2022, the three characters U+00E2 U+20AC U+00A2 of its
\* mis-decoded form, and the hyphen) and the newline; the non-ASCII
\* characters are written by their code points
ParaSeparators == {"U+2022", "U+00E2", "U+20AC", "U+00A2", "-", "\n"}

RECURSIVE re_split_at(_, _, _, _)
re_split_at(s, i, cur, acc) ==
    IF i > Len(s) THEN Append(acc, cur)
    ELSE IF s[i] \in ParaSeparators
         THEN re_split_at(s, i + 1, <<>>, Append(acc, cur))
    ELSE re_split_at(s, i + 1, Append(cur, s[i]), acc)

re_split(s) == re_split_at(s, 1, <<>>, <<>>)

\* [f(x) for x in s if keep(x)]
SelectMap(s, Keep(_), F(_)) ==
    LET kept == SelectSeq(s, Keep) IN [i \in 1..Len(kept) |-> F(kept[i])]

\* f"{n}" for n >= 0
Digit(d) == <<"0", "1", "2", "3", "4", "5", "6", "7", "8", "9">>[d + 1]

RECURSIVE ToDecimal(_)
ToDecimal(n) ==
    IF n < 10 THEN <<Digit(n)>> ELSE Append(ToDecimal(n \div 10), Digit(n % 10))

-----------------------------------------------------------------------------
(* _heuristic_split *)

\* number of leading whitespace characters of ln
LeadingSpace(ln) == Len(ln) - Len(lstrip(ln, Whitespace))

\* re.match(r"^\s*#{1,2}\s+.+", ln): whitespace, one or two "#", at least one
\* whitespace character, then at least one character that is not a newline
heading_match(ln) ==
    \E a \in 0..Len(ln) : \E h \in 1..2 : \E w \in 1..Len(ln) :
        /\ a + h + w + 1 <= Len(ln)
        /\ \A j \in 1..a : ln[j] \in Whitespace
        /\ \A j \in (a + 1)..(a + h) : ln[j] = "#"
        /\ \A j \in (a + h + 1)..(a + h + w) : ln[j] \in Whitespace
        /\ ln[a + h + w + 1] # "\n"

\* re.sub(r"^\s*#{1,2}\s+", "", ln): the longest prefix of that form is removed
heading_sub(ln) ==
    LET a == LeadingSpace(ln)
        rest == SubSeq(ln, a + 1, Len(ln))
        h == IF Len(rest) >= 3 /\ rest[1] = "#" /\ rest[2] = "#" /\ rest[3] \in Whitespace
             THEN 2
             ELSE IF Len(rest) >= 2 /\ rest[1] = "#" /\ rest[2] \in Whitespace
             THEN 1
             ELSE 0
    IN  IF h = 0 THEN ln ELSE lstrip(SubSeq(rest, h + 1, Len(rest)), Whitespace)

SlideTitle == <<"S", "l", "i", "d", "e">>
SectionTitle == <<"S", "e", "c", "t", "i", "o", "n", " ">>
BulletMarkers == {"-", "*", " "}

NonBlank(ln) == strip(ln, Whitespace) # <<>>
bullet_of(ln) == strip(strip(ln, BulletMarkers), Whitespace)

\* flush_slide with the default title given only to a missing title, not to
\* an empty one
flush_slide_mut(nl) ==
    LET bullets == SelectMap(nl.current_lines, NonBlank, bullet_of)
        slide == [title   |-> IF nl.current_title # None
                              THEN nl.current_title ELSE SlideTitle,
                  bullets |-> Prefix(bullets, BulletCap),
                  notes   |-> <<>>]
    IN  [slides        |-> IF Truthy(nl.current_title) \/ nl.current_lines # <<>>
                           THEN Append(nl.slides, slide) ELSE nl.slides,
         current_title |-> None,
         current_lines |-> <<>>]

\* flush_slide(): nl is the triple of nonlocals slides, current_title, current_lines
flush_slide(nl) ==
    LET bullets == SelectMap(nl.current_lines, NonBlank, bullet_of)
        slide == [title   |-> IF Truthy(nl.current_title)
                              THEN nl.current_title ELSE SlideTitle,
                  bullets |-> Prefix(bullets, BulletCap),
                  notes   |-> <<>>]
    IN  [slides        |-> IF Truthy(nl.current_title) \/ nl.current_lines # <<>>
                           THEN Append(nl.slides, slide) ELSE nl.slides,
         current_title |-> None,
         current_lines |-> <<>>]

\* scan_line without the flush at a heading
scan_line_mut(nl, ln) ==
    IF heading_match(ln)
    THEN [nl EXCEPT !.current_title = strip(heading_sub(ln), Whitespace)]
    ELSE IF NonBlank(ln)
    THEN [nl EXCEPT !.current_lines = Append(@, strip(ln, Whitespace))]
    ELSE nl

\* one iteration of "for ln in lines"
scan_line(nl, ln) ==
    IF heading_match(ln)
    THEN [flush_slide(nl) EXCEPT
              !.current_title = strip(heading_sub(ln), Whitespace)]
    ELSE IF NonBlank(ln)
    THEN [nl EXCEPT !.current_lines = Append(@, strip(ln, Whitespace))]
    ELSE nl

RECURSIVE scan_lines(_, _)
scan_lines(s0, ls) ==
    IF ls = <<>> THEN s0 ELSE scan_lines(scan_line(s0, Head(ls)), Tail(ls))

\* the slides of the "chunk by paragraphs" branch
RECURSIVE para_slides(_, _)
para_slides(paras, i) ==
    IF paras = <<>> THEN <<>>
    ELSE <<[title   |-> SectionTitle \o ToDecimal(i + 1),
            bullets |-> Prefix(SelectMap(re_split(Head(paras)), NonBlank,
                                         LAMBDA s : strip(s, Whitespace)),
                               ParaBulletCap),
            notes   |-> <<>>]>>
         \o para_slides(Tail(paras), i + 1)

\* the nonlocals before the loop, lines 115-117
st0 == [slides |-> <<>>, current_title |-> None, current_lines |-> <<>>]

\* what follows the loop, lines 140-148: s1 is the state the loop ended in
finish_split(s1, t) ==
    LET scanned == flush_slide(s1).slides
        paras == SelectMap(split_paras(t), NonBlank, LAMBDA p : strip(p, Whitespace))
        slides == IF scanned = <<>> THEN para_slides(paras, 0) ELSE scanned
    IN  PyDict({"title", "slides"}, <<>>, Prefix(slides, SlideCap))

_heuristic_split(t, g) ==
    finish_split(scan_lines(st0, splitlines(strip(t, Whitespace))), t)

-----------------------------------------------------------------------------
(* Inputs of _heuristic_split *)

Alphabet == {"#", " ", "\n", "-", "a"}

\* every text over Alphabet up to MaxTextLen characters
ShortTexts == UNION {[1..n -> Alphabet] : n \in 0..MaxTextLen}

RECURSIVE Repeat(_, _)
Repeat(u, n) == IF n = 0 THEN <<>> ELSE u \o Repeat(u, n - 1)

HeadingLine == <<"#", " ", "a", "\n">>
ContentLine == <<"b", "\n">>
BlankHeadingLine == <<"#", " ", " ", "\n">>

\* long texts: an optional heading, then one line repeated
RepeatedTexts ==
    {h \o Repeat(u, n) : h \in {<<>>, HeadingLine},
                         u \in {HeadingLine, ContentLine, BlankHeadingLine},
                         n \in 1..MaxRepeat}

HeadingExample ==
    <<"#", " ", "A", "\n", "l", "i", "n", "e", "1", "\n", "#", "#", " ", "B", "\n",
      "l", "i", "n", "e", "2", "\n", "l", "i", "n", "e", "3">>
ParagraphExample ==
    <<"p", "a", "r", "a", " ", "o", "n", "e", "\n", "\n",
      "p", "a", "r", "a", " ", "t", "w", "o">>

SampleTexts ==
    { HeadingExample,
      ParagraphExample,
      <<"-", "-", "-">>,
      <<"#", " ", "a", "\n", "-", "\n", "*", "\n", "b">>,
      <<"#", " ", "A", "\n", "x", "\n", "#", " ", " ", "\n", "#", " ", " ", "\n", "y">>,
      <<"#", " ", "A", "\n", "#", "\t", " ", "\n", "#", "#", " ", "B">>,
      <<"a", "\r", "\n", "#", " ", "b">> }

Texts == ShortTexts \cup RepeatedTexts \cup SampleTexts

Guidances == {None, <<"g">>}

-----------------------------------------------------------------------------
(* Values of the variables a specification does not use *)

NoHttp == [kind |-> "none", content |-> <<>>]
NoTemplate == [valid |-> FALSE, layouts |-> <<>>, slides |-> <<>>]
NoOutline == PyDict({}, <<>>, <<>>)
NoPrs == [layouts |-> <<>>, slides |-> <<>>]

RouterIdle ==
    /\ provider = <<>>
    /\ api_key = None
    /\ http = NoHttp

SplitIdle ==
    /\ lines = <<>>
    /\ st = st0

RenderIdle ==
    /\ template = NoTemplate
    /\ outline = NoOutline
    /\ prefer_layout_idx = 1
    /\ prs = NoPrs
    /\ template_images = <<>>
    /\ image_idx = 0
    /\ default_layout_idx = 0
    /\ todo = <<>>
    /\ failure = "none"

-----------------------------------------------------------------------------
(* SpecSplit: _heuristic_split applied to a text *)

InitSplit ==
    /\ pc = "start"
    /\ text \in Texts
    /\ guidance \in Guidances
    /\ result = Returned(NoValue)
    /\ SplitIdle
    /\ RouterIdle
    /\ RenderIdle

\* lines 113-117
SplitLines ==
    /\ pc = "start"
    /\ lines' = splitlines(strip(text, Whitespace))
    /\ st' = st0
    /\ pc' = "scan"
    /\ UNCHANGED <<text, guidance, result>>
    /\ UNCHANGED routerVars
    /\ UNCHANGED renderVars

\* one iteration of "for ln in lines", lines 133-138
ScanLine ==
    /\ pc = "scan"
    /\ lines # <<>>
    /\ st' = scan_line(st, Head(lines))
    /\ lines' = Tail(lines)
    /\ UNCHANGED <<pc, text, guidance, result>>
    /\ UNCHANGED routerVars
    /\ UNCHANGED renderVars

\* lines 140-148
FinishSplit ==
    /\ pc = "scan"
    /\ lines = <<>>
    /\ result' = Returned(finish_split(st, text))
    /\ pc' = "done"
    /\ UNCHANGED <<text, guidance, lines, st>>
    /\ UNCHANGED routerVars
    /\ UNCHANGED renderVars

NextSplit ==
    \/ SplitLines
    \/ ScanLine
    \/ FinishSplit

SpecSplit == InitSplit /\ [][NextSplit]_vars

-----------------------------------------------------------------------------
(* What the lines of a text are, stated without the scanning loop *)

Lines(t) == splitlines(strip(t, Whitespace))

Slides == result.value.slides

HeadingIdx(L) == {i \in 1..Len(L) : heading_match(L[i])}
NumHeadings(L) == Cardinality(HeadingIdx(L))
NthHeading(L, k) ==
    CHOOSE i \in HeadingIdx(L) : Cardinality({j \in HeadingIdx(L) : j <= i}) = k

\* a line with heading markers and nothing else
MarkersOnly(ln) == strip(ln, Whitespace) \in {<<"#">>, <<"#", "#">>}

HeadingText(ln) == strip(heading_sub(ln), Whitespace)
StrippedBullet(ln) ==
    strip(strip(strip(ln, Whitespace), BulletMarkers), Whitespace)

\* group 0 is what precedes the first heading line, group k >= 1 is the k-th
\* heading line with the lines up to the next heading line
GroupTitle(L, k) == IF k = 0 THEN <<>> ELSE HeadingText(L[NthHeading(L, k)])
GroupBullets(L, k) ==
    LET first == IF k = 0 THEN 1 ELSE NthHeading(L, k) + 1
        last == IF k = NumHeadings(L) THEN Len(L) ELSE NthHeading(L, k + 1) - 1
    IN  Prefix(SelectMap(SubSeq(L, first, last), NonBlank, StrippedBullet), BulletCap)
Group(L, k) == [title |-> GroupTitle(L, k), bullets |-> GroupBullets(L, k)]

GroupHasSlide(g) == g.title # <<>> \/ g.bullets # <<>>
GroupSlide(g) ==
    [title |-> IF g.title # <<>> THEN g.title ELSE SlideTitle,
     bullets |-> g.bullets, notes |-> <<>>]

\* the slides of the groups from..NumHeadings(L) that have a title or a line
SlidesOfGroups(L, from) ==
    LET n == NumHeadings(L)
        groups == [j \in 1..(n - from + 1) |-> Group(L, from + j - 1)]
    IN  Prefix(SelectMap(groups, GroupHasSlide, GroupSlide), SlideCap)

FirstLineIsHeading(t) == Lines(t) # <<>> /\ heading_match(Lines(t)[1])

Str_A == <<"A">>
Str_B == <<"B">>
Str_line1 == <<"l", "i", "n", "e", "1">>
Str_line2 == <<"l", "i", "n", "e", "2">>
Str_line3 == <<"l", "i", "n", "e", "3">>

-----------------------------------------------------------------------------
(* Claims about _heuristic_split, checked under SpecSplit *)

\* C3: for any input text _heuristic_split returns between 0 and 20 slides
\* and every bullet of every slide is a non-empty string.
C3_BulletsNonEmpty ==
    pc = "done" =>
        /\ Len(Slides) \in 0..SlideCap
        /\ \A k \in 1..Len(Slides) :
               \A b \in 1..Len(Slides[k].bullets) : Slides[k].bullets[b] # <<>>

\* C4: a text with non-blank content and no heading line is chunked by
\* blank-line-delimited paragraphs: the k-th non-empty paragraph becomes the
\* slide titled "Section k" with at most 6 bullets.
C4_ParagraphChunking ==
    pc = "done" /\ NonBlank(text) /\ HeadingIdx(Lines(text)) = {} =>
        LET paras == SelectSeq(split_paras(text), NonBlank)
        IN  /\ Len(Slides) = Min(Len(paras), SlideCap)
            /\ \A k \in 1..Len(Slides) :
                   /\ Slides[k].title = SectionTitle \o ToDecimal(k)
                   /\ Len(Slides[k].bullets) <= ParaBulletCap

\* C5 as stated: when the first line is a heading, there is one slide per
\* heading line, in input order, titled with the heading text, whose bullets
\* are the stripped non-blank lines up to the next heading, at most 8.
C5_OneSlidePerHeading ==
    pc = "done" /\ FirstLineIsHeading(text) =>
        LET L == Lines(text)
        IN  Slides = [k \in 1..NumHeadings(L) |->
                         [title |-> GroupTitle(L, k),
                          bullets |-> GroupBullets(L, k),
                          notes |-> <<>>]]

\* C5 amended: when the first line is a heading, the slides are, in input
\* order, those of the heading lines that have a non-blank heading text or a
\* non-blank line before the next heading, cut to the first 20; each is titled
\* with the heading text, or "Slide" when that text is blank, and its bullets
\* are the stripped non-blank lines up to the next heading, at most 8.
C5_SlidesOfHeadings ==
    pc = "done" /\ FirstLineIsHeading(text) =>
        Slides = SlidesOfGroups(Lines(text), 1)

C5_Witness ==
    /\ pc = "done"
    /\ text = HeadingExample
    /\ Slides = <<[title |-> Str_A, bullets |-> <<Str_line1>>, notes |-> <<>>],
                  [title |-> Str_B, bullets |-> <<Str_line2, Str_line3>>,
                   notes |-> <<>>]>>

\* C10 as stated: a line with heading markers and no trailing text gives a
\* slide whose title is the empty string.
C10_EmptyTitleSlide ==
    pc = "done" =>
        LET L == Lines(text)
        IN  (\E i \in 1..Len(L) : MarkersOnly(L[i])) =>
                \E k \in 1..Len(Slides) : Slides[k].title = <<>>

\* C10 amended: no slide has an empty title.  A line with heading markers
\* and no trailing text that is not matched as a heading is a content line
\* of the slide being collected; one that is matched as a heading (the
\* markers are followed by two or more whitespace characters) flushes the
\* buffer and gives a slide only when a non-blank line follows it before the
\* next heading, and that slide is titled "Slide".
C10_NoEmptyTitle ==
    pc = "done" =>
        LET L == Lines(text)
        IN  /\ \A k \in 1..Len(Slides) : Slides[k].title # <<>>
            /\ (\E i \in 1..Len(L) : MarkersOnly(L[i])) =>
                   Slides = SlidesOfGroups(L, 0)

C10_Witness ==
    /\ pc = "done"
    /\ text = <<"#", " ", " ", "\n", "a">>
    /\ heading_match(Lines(text)[1])
    /\ MarkersOnly(Lines(text)[1])
    /\ Slides = <<[title |-> SlideTitle, bullets |-> <<<<"a">>>>, notes |-> <<>>]>>

-----------------------------------------------------------------------------
(* The provider structurers and structure_slides *)

\* str.lower() on the letters the provider names below are written with
LowerChar(c) ==
    CASE c = "A" -> "a" [] c = "E" -> "e" [] c = "G" -> "g" [] c = "I" -> "i"
      [] c = "M" -> "m" [] c = "N" -> "n" [] c = "O" -> "o" [] c = "P" -> "p"
      [] OTHER -> c
lower(s) == [i \in 1..Len(s) |-> LowerChar(s[i])]

Str_openai == <<"o", "p", "e", "n", "a", "i">>
Str_anthropic == <<"a", "n", "t", "h", "r", "o", "p", "i", "c">>
Str_gemini == <<"g", "e", "m", "i", "n", "i">>
Supported == {Str_openai, Str_anthropic, Str_gemini}

\* (provider or "").lower().strip()
normalize(p) == strip(lower(IF p = None THEN <<>> ELSE p), Whitespace)

\* The text a provider answers with is a sequence of JSON tokens and words:
\*   "{" and "}"  the braces of an object
\*   "s"          the member "slides": [one slide titled P]
\*   "1"          a number
\*   "x"          a word of prose, never part of a JSON document
ProviderSlide == [title |-> <<"P">>, bullets |-> <<>>, notes |-> <<>>]

\* json.loads(c): a number, or an object whose members are "s" (a repeated
\* member is accepted, the last one wins)
json_loads(c) ==
    IF c = <<"1">> THEN Returned(PyNumber)
    ELSE IF /\ Len(c) >= 2
            /\ c[1] = "{"
            /\ c[Len(c)] = "}"
            /\ \A i \in 2..(Len(c) - 1) : c[i] = "s"
         THEN Returned(IF Len(c) >= 3
                       THEN PyDict({"slides"}, <<>>, <<ProviderSlide>>)
                       ELSE PyDict({}, <<>>, <<>>))
    ELSE Raised

\* re.search(r"\{.*\}", c, re.S): from the first "{" to the last "}" after it
HasSpan(c) ==
    \E o \in 1..Len(c) : \E e \in 1..Len(c) : o < e /\ c[o] = "{" /\ c[e] = "}"
Span(c) ==
    SubSeq(c, MinOf({i \in 1..Len(c) : c[i] = "{"}),
              MaxOf({i \in 1..Len(c) : c[i] = "}"}))

\* what requests.post, raise_for_status and resp.json() can end in
HttpFailures == {"network_error", "http_error", "non_json_body"}

_call_openai(h) ==
    IF h.kind \in HttpFailures \cup {"missing_envelope"} THEN Raised
    ELSE LET first == json_loads(h.content)
         IN  IF ~first.raised THEN first
             ELSE IF HasSpan(h.content) THEN json_loads(Span(h.content))
             ELSE Raised

_call_anthropic(h) ==
    IF h.kind \in HttpFailures THEN Raised
    ELSE LET text_out == IF h.kind = "missing_envelope" THEN <<>> ELSE h.content
         IN  json_loads(text_out)

_call_gemini(h) ==
    IF h.kind \in HttpFailures THEN Raised
    ELSE LET text_out == IF h.kind = "missing_envelope" THEN <<>> ELSE h.content
         IN  json_loads(text_out)

call_provider(p, h) ==
    CASE p = Str_openai -> _call_openai(h)
      [] p = Str_anthropic -> _call_anthropic(h)
      [] p = Str_gemini -> _call_gemini(h)

\* structure_slides without the except clause
structure_slides_mut(prov, key, t, g, h) ==
    LET p == normalize(prov)
    IN  IF Truthy(key) /\ p \in Supported
        THEN call_provider(p, h)
        ELSE Returned(_heuristic_split(t, g))

structure_slides(prov, key, t, g, h) ==
    LET p == normalize(prov)
    IN  IF Truthy(key) /\ p \in Supported /\ ~call_provider(p, h).raised
        THEN call_provider(p, h)
        ELSE Returned(_heuristic_split(t, g))

-----------------------------------------------------------------------------
(* SpecRouter: structure_slides with one provider answer *)

Providers ==
    { Str_openai,
      <<" ", "O", "p", "e", "n", "A", "I", " ">>,
      Str_anthropic,
      <<"G", "E", "M", "I", "N", "I", "\n">>,
      <<"c", "o", "h", "e", "r", "e">>,
      None }

Keys == {None, <<>>, <<"k">>}

ContentAlphabet == {"{", "}", "s", "1", "x"}
Contents == UNION {[1..n -> ContentAlphabet] : n \in 0..MaxContentLen}

HttpOutcomes ==
    {[kind |-> k, content |-> <<>>] : k \in HttpFailures \cup {"missing_envelope"}}
    \cup {[kind |-> "ok", content |-> c] : c \in Contents}

RouterTexts == {<<"#", " ", "A", "\n", "x">>, <<"-", "\n", "a">>}

InitRouter ==
    /\ pc = "start"
    /\ text \in RouterTexts
    /\ guidance \in Guidances
    /\ provider \in Providers
    /\ api_key \in Keys
    /\ http \in HttpOutcomes
    /\ result = Returned(NoValue)
    /\ SplitIdle
    /\ RenderIdle

StructureSlides ==
    /\ pc = "start"
    /\ pc' = "done"
    /\ result' = structure_slides(provider, api_key, text, guidance, http)
    /\ UNCHANGED <<text, guidance>>
    /\ UNCHANGED splitVars
    /\ UNCHANGED routerVars
    /\ UNCHANGED renderVars

NextRouter == StructureSlides

SpecRouter == InitRouter /\ [][NextRouter]_vars

\* the provider structurer is attempted
Attempted == Truthy(api_key) /\ normalize(provider) \in Supported
Attempt == call_provider(normalize(provider), http)
Heuristic == Returned(_heuristic_split(text, guidance))

\* C1: with a non-empty credential and a supported provider, when the
\* provider call raises (network error, non-2xx status, non-JSON body,
\* missing envelope field, unparsable text) structure_slides does not raise
\* and returns the outline _heuristic_split gives for the same text.
C1_FallbackOnFailure ==
    pc = "done" /\ Attempted /\ (http.kind # "ok" \/ Attempt.raised) =>
        /\ ~result.raised
        /\ result.value = _heuristic_split(text, guidance)

C1_Witness ==
    /\ pc = "done"
    /\ provider = <<" ", "O", "p", "e", "n", "A", "I", " ">>
    /\ api_key = <<"k">>
    /\ http.kind = "http_error"
    /\ text = <<"#", " ", "A", "\n", "x">>
    /\ ~result.raised
    /\ result.value.slides =
           <<[title |-> Str_A, bullets |-> <<<<"x">>>>, notes |-> <<>>]>>

\* what makes a returned object usable as an Outline
Usable(v) == v.type = "dict" /\ "slides" \in v.keys

\* C6: structure_slides always returns a usable Outline; a provider text
\* that parses as JSON without being an object with the Outline fields
\* counts as a failed attempt and the heuristic outline is returned.
C6_AlwaysUsableOutline ==
    pc = "done" =>
        /\ ~result.raised
        /\ Usable(result.value)
        /\ (Attempted /\ ~Attempt.raised /\ ~Usable(Attempt.value)) =>
               result = Heuristic

\* C9: for each of openai, anthropic and gemini, when the unwrapped text is
\* not valid JSON the span from the first "{" to the last "}" is parsed
\* instead, and the call fails only if there is no span or it does not parse.
C9_SpanExtraction ==
    pc = "done" /\ Attempted /\ http.kind = "ok" /\ json_loads(http.content).raised =>
        IF HasSpan(http.content) /\ ~json_loads(Span(http.content)).raised
        THEN result = json_loads(Span(http.content))
        ELSE result = Heuristic

-----------------------------------------------------------------------------
(* pptx_builder.py *)

\* A layout is known by the placeholders it gives a new slide.
TitleAndContent == [has_title |-> TRUE, has_body |-> TRUE]
Blank == [has_title |-> FALSE, has_body |-> FALSE]
LayoutKinds == {TitleAndContent, Blank}

\* A shape of a template slide: its shape_type (13 is a picture) and what
\* reading shape.image.blob gives: "png" a usable image, "bad" bytes that
\* add_picture rejects, "unreadable" when reading the blob raises.
PICTURE == 13
ShapeKinds ==
    { [shape_type |-> PICTURE, blob |-> "png"],
      [shape_type |-> PICTURE, blob |-> "bad"],
      [shape_type |-> PICTURE, blob |-> "unreadable"],
      [shape_type |-> 17, blob |-> "unreadable"] }

\* A slide of the presentation: where it comes from ("template", "title" or
\* "outline"), for an outline slide its position in the outline, the layout
\* index, the text of the title and body placeholders (None when not
\* written), the pool index chosen for its picture (-1 when none is chosen)
\* and whether the picture was placed, and the notes.
Slide(origin, index, layout, title, body, image_slot, placed, notes) ==
    [origin |-> origin, index |-> index, layout |-> layout, title |-> title,
     body |-> body, image_slot |-> image_slot, placed |-> placed, notes |-> notes]

TemplateSlide == Slide("template", 0, 0, None, None, -1, FALSE, <<>>)

\* all shapes of all slides, in order
RECURSIVE AllShapes(_)
AllShapes(slides) ==
    IF slides = <<>> THEN <<>> ELSE Head(slides) \o AllShapes(Tail(slides))

IsReadablePicture(shape) == shape.shape_type = PICTURE /\ shape.blob # "unreadable"

collect_template_images(tpl) ==
    SelectMap(AllShapes(tpl.slides), IsReadablePicture, LAMBDA shape : shape.blob)

\* bullets = [b for b in s.get("bullets", []) if b]
NonEmptyBullets(bullets) == SelectSeq(bullets, LAMBDA b : b # <<>>)

\* add_bulleted_slide advancing the counter only when a picture was placed
add_bulleted_slide_mut(p, layout_idx, index, s, image_blobs, image_cycle_idx) ==
    IF layout_idx >= Len(p.layouts)
    THEN [raised |-> TRUE, prs |-> p, image_cycle_idx |-> image_cycle_idx]
    ELSE
        LET slide_layout == p.layouts[layout_idx + 1]
            bullets == NonEmptyBullets(s.bullets)
            title == IF slide_layout.has_title THEN s.title ELSE None
            body == IF slide_layout.has_body THEN bullets ELSE None
            slot == IF image_blobs # <<>>
                    THEN image_cycle_idx % Len(image_blobs) ELSE -1
            placed == slot >= 0 /\ image_blobs[slot + 1] = "png"
            notes == IF s.notes # <<>> THEN s.notes ELSE <<>>
            slide == Slide("outline", index, layout_idx, title, body, slot,
                           placed, notes)
        IN  [raised |-> FALSE,
             prs |-> [p EXCEPT !.slides = Append(@, slide)],
             image_cycle_idx |-> IF placed THEN image_cycle_idx + 1
                                 ELSE image_cycle_idx]

\* add_bulleted_slide: the presentation and the counter it returns, or the
\* IndexError of prs.slide_layouts[layout_idx]
add_bulleted_slide(p, layout_idx, index, s, image_blobs, image_cycle_idx) ==
    IF layout_idx >= Len(p.layouts)
    THEN [raised |-> TRUE, prs |-> p, image_cycle_idx |-> image_cycle_idx]
    ELSE
        LET slide_layout == p.layouts[layout_idx + 1]
            bullets == NonEmptyBullets(s.bullets)
            title == IF slide_layout.has_title THEN s.title ELSE None
            body == IF slide_layout.has_body THEN bullets ELSE None
            slot == IF image_blobs # <<>>
                    THEN image_cycle_idx % Len(image_blobs) ELSE -1
            placed == slot >= 0 /\ image_blobs[slot + 1] = "png"
            notes == IF s.notes # <<>> THEN s.notes ELSE <<>>
            slide == Slide("outline", index, layout_idx, title, body, slot,
                           placed, notes)
        IN  [raised |-> FALSE,
             prs |-> [p EXCEPT !.slides = Append(@, slide)],
             image_cycle_idx |-> image_cycle_idx + 1]

\* the title slide of build_presentation, lines 75-84
add_title_slide(p, deck) ==
    IF "title" \in deck.keys /\ deck.title # <<>> /\ Len(p.layouts) >= 1
    THEN [p EXCEPT !.slides =
             Append(@, Slide("title", 0, 0,
                             IF p.layouts[1].has_title THEN deck.title ELSE None,
                             None, -1, FALSE, <<>>))]
    ELSE p

\* default_layout_idx, line 89
choose_layout(prefer, p) == IF prefer < Len(p.layouts) THEN prefer ELSE 1

-----------------------------------------------------------------------------
(* SpecRender: build_presentation, one step per slide appended *)

LayoutLists == UNION {[1..n -> LayoutKinds] : n \in 1..MaxLayouts}
TemplateSlideLists ==
    UNION {[1..n -> {<<sh>> : sh \in ShapeKinds}] : n \in 0..MaxTemplateSlides}

Templates ==
    {[valid |-> TRUE, layouts |-> l, slides |-> sl] :
         l \in LayoutLists, sl \in TemplateSlideLists}
    \cup {NoTemplate}

\* the k-th slide of an outline: odd slides carry an empty bullet, even
\* slides carry notes
SlideSpec(k) ==
    [title |-> <<"T", Digit(k % 10)>>,
     bullets |-> IF k % 2 = 1 THEN <<<<"x">>, <<>>, <<"y">>>> ELSE <<<<"z">>>>,
     notes |-> IF k % 2 = 0 THEN <<"n">> ELSE <<>>]

Outlines ==
    {PyDict({"title", "slides"}, t, [k \in 1..n |-> SlideSpec(k)]) :
         t \in {<<>>, <<"D">>}, n \in 0..MaxOutlineSlides}

InitRender ==
    /\ pc = "start"
    /\ template \in Templates
    /\ outline \in Outlines
    /\ prefer_layout_idx \in 0..MaxLayouts
    /\ prs = NoPrs
    /\ template_images = <<>>
    /\ image_idx = 0
    /\ default_layout_idx = 0
    /\ todo = <<>>
    /\ failure = "none"
    /\ text = <<>>
    /\ guidance = None
    /\ result = Returned(NoValue)
    /\ SplitIdle
    /\ RouterIdle

\* prs = Presentation(in_buf); template_images = collect_template_images(prs)
ParseTemplate ==
    /\ pc = "start"
    /\ IF template.valid
       THEN /\ prs' = [layouts |-> template.layouts,
                       slides |-> [i \in 1..Len(template.slides) |-> TemplateSlide]]
            /\ template_images' = collect_template_images(template)
            /\ pc' = "title"
            /\ UNCHANGED failure
       ELSE /\ pc' = "failed"
            /\ failure' = "parse"
            /\ UNCHANGED <<prs, template_images>>
    /\ UNCHANGED <<template, outline, prefer_layout_idx, image_idx,
                   default_layout_idx, todo>>
    /\ UNCHANGED <<text, guidance, result>>
    /\ UNCHANGED splitVars
    /\ UNCHANGED routerVars

AddTitleSlide ==
    /\ pc = "title"
    /\ prs' = add_title_slide(prs, outline)
    /\ pc' = "layout"
    /\ UNCHANGED <<template, outline, prefer_layout_idx, template_images,
                   image_idx, default_layout_idx, todo, failure>>
    /\ UNCHANGED <<text, guidance, result>>
    /\ UNCHANGED splitVars
    /\ UNCHANGED routerVars

\* lines 86-89
ChooseLayout ==
    /\ pc = "layout"
    /\ image_idx' = 0
    /\ todo' = IF "slides" \in outline.keys THEN outline.slides ELSE <<>>
    /\ default_layout_idx' = choose_layout(prefer_layout_idx, prs)
    /\ pc' = "slides"
    /\ UNCHANGED <<template, outline, prefer_layout_idx, prs, template_images,
                   failure>>
    /\ UNCHANGED <<text, guidance, result>>
    /\ UNCHANGED splitVars
    /\ UNCHANGED routerVars

\* one iteration of "for s in slides"
AddBulletedSlide ==
    /\ pc = "slides"
    /\ todo # <<>>
    /\ LET index == Len(outline.slides) - Len(todo) + 1
           r == add_bulleted_slide(prs, default_layout_idx, index, Head(todo),
                                   template_images, image_idx)
       IN  IF r.raised
           THEN /\ pc' = "failed"
                /\ failure' = "index_error"
                /\ UNCHANGED <<prs, image_idx, todo>>
           ELSE /\ prs' = r.prs
                /\ image_idx' = r.image_cycle_idx
                /\ todo' = Tail(todo)
                /\ UNCHANGED <<pc, failure>>
    /\ UNCHANGED <<template, outline, prefer_layout_idx, template_images,
                   default_layout_idx>>
    /\ UNCHANGED <<text, guidance, result>>
    /\ UNCHANGED splitVars
    /\ UNCHANGED routerVars

\* prs.save(out) returns
Save ==
    /\ pc = "slides"
    /\ todo = <<>>
    /\ pc' = "done"
    /\ UNCHANGED renderVars
    /\ UNCHANGED <<text, guidance, result>>
    /\ UNCHANGED splitVars
    /\ UNCHANGED routerVars

\* prs.save(out) raises
SaveFails ==
    /\ pc = "slides"
    /\ todo = <<>>
    /\ pc' = "failed"
    /\ failure' = "save"
    /\ UNCHANGED <<template, outline, prefer_layout_idx, prs, template_images,
                   image_idx, default_layout_idx, todo>>
    /\ UNCHANGED <<text, guidance, result>>
    /\ UNCHANGED splitVars
    /\ UNCHANGED routerVars

NextRender ==
    \/ ParseTemplate
    \/ AddTitleSlide
    \/ ChooseLayout
    \/ AddBulletedSlide
    \/ Save
    \/ SaveFails

SpecRender == InitRender /\ [][NextRender]_vars

-----------------------------------------------------------------------------
(* Claims about build_presentation, checked under SpecRender *)

NumLayouts == Len(prs.layouts)
OutlineSlides == SelectSeq(prs.slides, LAMBDA sl : sl.origin = "outline")

\* C2: for a template that parses, build_presentation fails only if the
\* serialization fails: the layout index used for the outline slides is a
\* valid index of the template's layouts (the preferred index when it is in
\* range, otherwise index 1 or the last index), and no per-slide step aborts.
C2_OnlySerializationFails ==
    /\ pc = "failed" /\ template.valid => failure = "save"
    /\ pc = "slides" /\ todo # <<>> =>
           /\ default_layout_idx \in 0..(NumLayouts - 1)
           /\ prefer_layout_idx < NumLayouts => default_layout_idx = prefer_layout_idx
           /\ prefer_layout_idx >= NumLayouts =>
                  default_layout_idx \in {1, NumLayouts - 1}

\* C7: whatever slides the template contains, the slides of the returned
\* presentation are exactly one title slide if outline.title is non-empty,
\* then one slide per SlideSpec of the outline in outline order.
C7_ExactSlideSequence ==
    pc = "done" =>
        LET off == IF outline.title # <<>> THEN 1 ELSE 0
            n == Len(outline.slides)
        IN  /\ Len(prs.slides) = off + n
            /\ off = 1 => prs.slides[1].origin = "title"
            /\ \A k \in 1..n : /\ prs.slides[off + k].origin = "outline"
                               /\ prs.slides[off + k].index = k

\* C8: the image counter starts at 0, is incremented once per outline slide
\* whether or not its picture was placed and is not advanced by the title
\* slide, so the k-th outline slide (0-based) uses pool index k mod n; the
\* pool is never modified.
C8_ImageCounter ==
    LET n == Len(template_images)
        os == OutlineSlides
    IN  /\ pc \in {"slides", "done"} \/ failure \in {"index_error", "save"} =>
               image_idx = Len(os)
        /\ \A k \in 1..Len(os) :
               os[k].image_slot = IF n > 0 THEN (k - 1) % n ELSE -1
        /\ \A i \in 1..Len(prs.slides) :
               prs.slides[i].origin # "outline" => prs.slides[i].image_slot = -1
        /\ pc \notin {"start"} /\ template.valid =>
               template_images = collect_template_images(template)

C8_Witness ==
    /\ pc = "done"
    /\ Len(template_images) = 2
    /\ Len(OutlineSlides) = 5
    /\ [k \in 1..5 |-> OutlineSlides[k].image_slot] = <<0, 1, 0, 1, 0>>
    /\ \E i \in 1..Len(prs.slides) : prs.slides[i].origin = "title"
    /\ \E k \in 1..5 : ~OutlineSlides[k].placed
    /\ image_idx = 5

=============================================================================
